---- MODULE Spec2Model ----
(***************************************************************************)
(* Text-detection sample: an inverted index over two Redis databases       *)
(* (tokens, documents), filled from an image-annotation service.           *)
(*                                                                         *)
(* Two implementations are modelled, selected by `impl`:                   *)
(*   "callback" : src/samples/textDetection.js                             *)
(*   "async"    : src/unnamed/part_000                                     *)
(*                                                                         *)
(* JavaScript strings are sequences of one-character strings, so that      *)
(* tokenizing and lowercasing are computed and not assumed.                *)
(***************************************************************************)
EXTENDS Integers, Sequences, FiniteSets, TLC

\* ------------------------------------------------------------------ bounds
\* At most MaxCalls calls of the exported API are made in one behaviour.
MaxCalls == 3

\* ------------------------------------------------------------------ strings
EmptyStr == <<>>

\* Document texts (what extractDescription yields for an annotated image).
TextA == <<"H", "i", ",", " ", "Y", "o", ".">>
TextB == <<"H", "i", " ", "m", "e">>
Texts == {TextA, TextB}

\* The directory given to `analyze`, and the names readdirSync may list in it.
InputDir == <<"d">>
NameA == <<"a", ".", "p">>
NameB == <<"b", ".", "p">>
NameSub == <<"s">>

\* path.join(inputDir, file)
join(dir, file) == dir \o <<"/">> \o file

\* File names handed to the index as document ids.
FileA == join(InputDir, NameA)
FileB == join(InputDir, NameB)
Files == {FileA, FileB}

\* Characters kept inside a word by natural.WordTokenizer: [A-Za-z0-9_].
WordChars == {"H", "Y", "h", "y", "i", "o", "m", "e", "n", "a", "b", "p", "d", "s"}

\* String.prototype.toLowerCase, per character.
LowerChar(c) ==
  CASE c = "H" -> "h"
    [] c = "Y" -> "y"
    [] OTHER -> c

toLowerCase(s) == [i \in 1..Len(s) |-> LowerChar(s[i])]

\* natural.WordTokenizer.tokenize: split on runs of non-word characters and
\* drop the empty pieces.  cur is the word being read.
RECURSIVE Split(_, _)
Split(s, cur) ==
  IF s = <<>>
    THEN IF cur = <<>> THEN <<>> ELSE <<cur>>
    ELSE IF Head(s) \in WordChars
           THEN Split(Tail(s), Append(cur, Head(s)))
           ELSE IF cur = <<>>
                  THEN Split(Tail(s), <<>>)
                  ELSE <<cur>> \o Split(Tail(s), <<>>)

tokenize(document) == Split(document, <<>>)

\* const PUNCTUATION = ['.', ',', ':', ''];
PUNCTUATION == {<<".">>, <<",">>, <<":">>, EmptyStr}

\* tokens.filter(token => PUNCTUATION.indexOf(token) === -1)
RECURSIVE Without(_, _)
Without(s, drop) ==
  IF s = <<>> THEN <<>>
  ELSE IF Head(s) \in drop
         THEN Without(Tail(s), drop)
         ELSE <<Head(s)>> \o Without(Tail(s), drop)

Range(s) == {s[i] : i \in 1..Len(s)}

\* Words a caller may look up: indexed spellings, their lowercase forms, and
\* a word no text contains.
WordHi == <<"H", "i">>
Wordhi == <<"h", "i">>
Wordno == <<"n", "o">>
WordLists == {<<WordHi>>, <<Wordno, Wordhi>>}

\* ------------------------------------------------------------------ values
\* A JavaScript value as far as the program tells values apart.
Null == [t |-> "null", b |-> FALSE, str |-> EmptyStr, arr |-> <<>>, msg |-> ""]
Undefined == [t |-> "undefined", b |-> FALSE, str |-> EmptyStr, arr |-> <<>>, msg |-> ""]
Bool(x) == [t |-> "bool", b |-> x, str |-> EmptyStr, arr |-> <<>>, msg |-> ""]
Str(s) == [t |-> "string", b |-> FALSE, str |-> s, arr |-> <<>>, msg |-> ""]
Arr(a) == [t |-> "array", b |-> FALSE, str |-> EmptyStr, arr |-> a, msg |-> ""]
Error(m) == [t |-> "error", b |-> FALSE, str |-> EmptyStr, arr |-> <<>>, msg |-> m]

\* ToBoolean: null, undefined, false and '' are falsy; every array and every
\* Error object is truthy.
Truthy(v) ==
  CASE v.t = "null" -> FALSE
    [] v.t = "undefined" -> FALSE
    [] v.t = "bool" -> v.b
    [] v.t = "string" -> v.str # EmptyStr
    [] OTHER -> TRUE

\* One image's response from the annotation service.
RespError == [error |-> TRUE, textAnnotations |-> <<>>]
RespNoText == [error |-> FALSE, textAnnotations |-> <<>>]
RespText == [error |-> FALSE, textAnnotations |-> <<TextA>>]
Responses == {RespError, RespNoText, RespText}

\* The answers considered for the two images: two different ones, of which
\* only the first image's may be an error.
Visions ==
  {v \in [Files -> Responses] : v[FileA] # v[FileB] /\ ~v[FileB].error}

\* An array element: a string, undefined, a set of members (what SMEMBERS
\* replies), or a function (cb) => ... that has captured the store operation
\* it would issue when called.
StrItem(s) ==
  [kind |-> "string", str |-> s, members |-> {}, fn |-> "", client |-> "",
   key |-> EmptyStr, arg |-> EmptyStr, resp |-> RespNoText]
UndefItem ==
  [kind |-> "undefined", str |-> EmptyStr, members |-> {}, fn |-> "",
   client |-> "", key |-> EmptyStr, arg |-> EmptyStr, resp |-> RespNoText]
SetItem(m) ==
  [kind |-> "set", str |-> EmptyStr, members |-> m, fn |-> "", client |-> "",
   key |-> EmptyStr, arg |-> EmptyStr, resp |-> RespNoText]
Thunk(fn, client, key, arg, resp) ==
  [kind |-> "function", str |-> EmptyStr, members |-> {}, fn |-> fn,
   client |-> client, key |-> key, arg |-> arg, resp |-> resp]

\* ------------------------------------------------------------------ store
\* A Redis key holds nothing, a set or a string.
Absent == [type |-> "none", members |-> {}, str |-> EmptyStr]
SetEntry(m) == [type |-> "set", members |-> m, str |-> EmptyStr]
StringEntry(v) == [type |-> "string", members |-> {}, str |-> v]

\* Keys the two databases are asked about, and the tokens add filters out.
Keys ==
  Files \cup {toLowerCase(w) : w \in UNION {Range(l) : l \in WordLists}}
        \cup UNION {Range(tokenize(t)) : t \in Texts}
        \cup PUNCTUATION

EmptyDB == [k \in Keys |-> Absent]

\* SADD key member
SADD(db, key, member) ==
  IF db[key].type = "string"
    THEN db
    ELSE [db EXCEPT ![key] = SetEntry(db[key].members \cup {member})]

\* SET key value
SET(db, key, value) == [db EXCEPT ![key] = StringEntry(value)]

\* GET key: the string, or null when the key is absent.
GET(db, key) ==
  CASE db[key].type = "string" -> Str(db[key].str)
    [] db[key].type = "none" -> Null
    [] OTHER -> Error("WRONGTYPE")

\* SMEMBERS key: the members, an empty set when the key is absent.
SMEMBERS(db, key) == IF db[key].type = "set" THEN db[key].members ELSE {}

\* ------------------------------------------------------------------ tasks
\* Index.prototype.add builds one function per kept token and one for the
\* text; both name tokenClient.
AddTasks(filename, document) ==
  LET kept == Without(tokenize(document), PUNCTUATION)
  IN [i \in 1..Len(kept) |->
        Thunk("sadd", "token", kept[i], filename, RespNoText)]
     \o <<Thunk("set", "token", filename, document, RespNoText)>>

\* Index.prototype.lookup builds one function per word, lowercased.
LookupTasks(words) ==
  [i \in 1..Len(words) |->
     Thunk("smembers", "token", toLowerCase(words[i]), EmptyStr, RespNoText)]

\* Promise.all(values): an element that is not a thenable is passed through
\* as its own fulfilment value.  The arrays this program hands to
\* Promise.all hold functions and strings only, so Promise.all calls none of
\* them ...
PromiseAllCalls(values) == SubSeq(values, 1, 0)

\* ... and fulfils with the elements themselves, in order.
PromiseAllValue(values) == [i \in 1..Len(values) |-> values[i]]

\* extractDescription: the descriptions of the annotations, concatenated.
RECURSIVE extractDescription(_)
extractDescription(texts) ==
  IF texts = <<>> THEN EmptyStr
  ELSE Head(texts) \o extractDescription(Tail(texts))

\* What calling one of these functions does to the two databases.
RECURSIVE Invoke(_, _)
RECURSIVE RunAll(_, _)
Invoke(th, st) ==
  CASE th.fn = "sadd" ->
         [st EXCEPT ![th.client] = SADD(@, th.key, th.arg)]
    [] th.fn = "set" ->
         [st EXCEPT ![th.client] = SET(@, th.key, th.arg)]
    [] th.fn = "extractDescriptions" ->
         \* extractDescriptions(filename, index, response, cb)
         IF Len(th.resp.textAnnotations) > 0
           THEN RunAll(PromiseAllCalls(
                         AddTasks(th.key,
                                  extractDescription(th.resp.textAnnotations))),
                       st)
           ELSE [st EXCEPT !.docs = SET(@, th.key, EmptyStr)]
    [] OTHER -> st

RunAll(ths, st) ==
  IF ths = <<>> THEN st ELSE RunAll(Tail(ths), Invoke(Head(ths), st))

\* array.filter(x => x): undefined and '' go, functions and names stay.
ItemTruthy(it) ==
  it.kind \in {"function", "set"} \/ (it.kind = "string" /\ it.str # EmptyStr)

FilterTruthy(items) ==
  Without(items, {it \in Range(items) : ~ItemTruthy(it)})

\* fs.readFileSync(path) throws a TypeError unless path is a file name.
readFileSyncThrows(inputFiles) ==
  \E i \in 1..Len(inputFiles) : inputFiles[i].kind # "string"

\* ------------------------------------------------------------------ state
VARIABLES
  impl,      \* which of the two source files is running
  vision,    \* what the annotation service answers for each image
  tokenDB,   \* Redis database 0 (TOKEN_DB), reached through tokenClient
  docsDB,    \* Redis database 1 (DOCS_DB), reached through docsClient
  calls      \* the API calls made so far, in call order

vars == <<impl, vision, tokenDB, docsDB, calls>>

\* Directory listings `analyze` may find: entries with stats.isDirectory().
Entry(name, isDir) == [name |-> name, isDirectory |-> isDir]
Dirs ==
  { <<Entry(NameSub, TRUE)>>,
    <<Entry(NameA, FALSE)>>,
    <<Entry(NameSub, TRUE), Entry(NameA, FALSE), Entry(NameB, FALSE)>> }

\* Batches a caller may hand to getTextFromFiles.
Batches == { <<StrItem(FileA)>>, <<StrItem(FileA), StrItem(FileB)>> }

\* Calls that have completed.
Settled == {i \in 1..Len(calls) : calls[i].pc = "done"}

\* A call just made: nothing delivered yet.  seen is the set of calls that
\* had completed when this one was made; launched lists the tasks the call
\* has had Promise.all call so far; impl is the source file whose code
\* the call runs.
Call(op) ==
  [op |-> op, impl |-> impl, file |-> EmptyStr, doc |-> EmptyStr, words |-> <<>>,
   files |-> <<>>, dir |-> <<>>, tasks |-> <<>>,
   pc |-> "pending", how |-> "none", err |-> Undefined, res |-> Undefined,
   conn |-> "none", log |-> {}, seen |-> Settled, launched |-> <<>>]

\* callback(err, res)
Callback(c, err, res) ==
  [c EXCEPT !.pc = "done", !.how = "callback", !.err = err, !.res = res]
\* the returned promise is fulfilled with value
Resolved(c, value) ==
  [c EXCEPT !.pc = "done", !.how = "resolved", !.res = value]
\* the returned promise is rejected with reason
Rejected(c, reason) ==
  [c EXCEPT !.pc = "done", !.how = "rejected", !.err = reason]

Store == [token |-> tokenDB, docs |-> docsDB]

Init ==
  /\ impl \in {"callback", "async"}
  /\ vision \in Visions
  /\ tokenDB = EmptyDB
  /\ docsDB = EmptyDB
  /\ calls = <<>>

\* ------------------------------------------------------------------ helpers
\* Promise.all(tasks).then(callback): callback is called with the fulfilment
\* value as its only argument, so the value arrives in the err position.
ThenCallback(c) == Callback(c, Arr(PromiseAllValue(c.tasks)), Undefined)

\* An async function returning Promise.all(tasks) fulfils with its value.
ThenResolve(c) == Resolved(c, Arr(PromiseAllValue(c.tasks)))

\* Promise.all(tasks).filter in the async main: a promise has no filter
\* method, so the call throws a TypeError.
PromiseHasFilter == FALSE

\* const [results] = await client.batchAnnotateImages(...) binds results to
\* the response object; results[0] is then undefined, and reading
\* .responses of it throws a TypeError.
DestructuredHasIndex0 == FALSE

\* The task list getTextFromFiles builds from the per-file responses.
BatchItem(it) ==
  IF vision[it.str].error
    THEN UndefItem
    ELSE Thunk("extractDescriptions", "docs", it.str, EmptyStr, vision[it.str])

\* callback variant: tasks.push(...) for every file without an error.
BatchTasksPushed(inputFiles) ==
  Without([k \in 1..Len(inputFiles) |-> BatchItem(inputFiles[k])], {UndefItem})

\* async variant: inputFiles.map(...), undefined where the file had an error.
BatchTasksMapped(inputFiles) ==
  [k \in 1..Len(inputFiles) |-> BatchItem(inputFiles[k])]

ApiErrors(inputFiles) ==
  {<<"API Error", inputFiles[k].str>> :
     k \in {j \in 1..Len(inputFiles) : vision[inputFiles[j].str].error}}

\* main: the names of the entries that are not directories ...
AllImageFiles(dir) ==
  [k \in 1..Len(dir) |->
     IF ~dir[k].isDirectory
       THEN StrItem(join(InputDir, dir[k].name))
       ELSE UndefItem]

\* ... and one function per name, each capturing a processed check.
CheckTasks(dir) ==
  LET named == FilterTruthy(AllImageFiles(dir))
  IN [k \in 1..Len(named) |->
        Thunk("documentIsProcessed", "docs", named[k].str, EmptyStr, RespNoText)]

\* ------------------------------------------------------------------ actions
\* A variant of add that pushes the document id onto a list kept under each
\* token as soon as it is called (used to test C11).
Index_add_append(f, d) ==
  /\ Len(calls) < MaxCalls
  /\ tokenDB' = [k \in Keys |->
                   IF k \in Range(Without(tokenize(d), PUNCTUATION))
                     THEN StringEntry(tokenDB[k].str \o f)
                     ELSE tokenDB[k]]
  /\ calls' = Append(calls, [Call("add") EXCEPT
                               !.file = f, !.doc = d, !.tasks = AddTasks(f, d)])
  /\ UNCHANGED <<impl, vision, docsDB>>

\* A variant of add that overwrites the posting set of every kept token with
\* the one document (used to test C15).
Index_add_replacing(f, d) ==
  /\ Len(calls) < MaxCalls
  /\ tokenDB' = [k \in Keys |->
                   IF k \in Range(Without(tokenize(d), PUNCTUATION))
                     THEN SetEntry({f})
                     ELSE tokenDB[k]]
  /\ calls' = Append(calls, [Call("add") EXCEPT
                               !.file = f, !.doc = d, !.tasks = AddTasks(f, d)])
  /\ UNCHANGED <<impl, vision, docsDB>>

\* Index.prototype.add(filename, document[, callback]): builds the tasks and
\* hands them to Promise.all.
Index_add(f, d) ==
  /\ Len(calls) < MaxCalls
  /\ LET tasks == AddTasks(f, d)
         st == RunAll(PromiseAllCalls(tasks), Store)
     IN /\ tokenDB' = st.token
        /\ docsDB' = st.docs
        /\ calls' = Append(calls, [Call("add") EXCEPT
                                     !.file = f, !.doc = d, !.tasks = tasks,
                                     !.launched = PromiseAllCalls(tasks)])
  /\ UNCHANGED <<impl, vision>>

\* The promise of Promise.all settles: .then(callback) in the callback
\* variant, the async function's returned promise in the other.
Index_add_then(i) ==
  /\ i \in 1..Len(calls)
  /\ calls[i].op = "add" /\ calls[i].pc = "pending"
  /\ calls' = [calls EXCEPT ![i] =
                 IF @.impl = "callback" THEN ThenCallback(@) ELSE ThenResolve(@)]
  /\ UNCHANGED <<impl, vision, tokenDB, docsDB>>

\* Index.prototype.lookup(words[, callback])
Index_lookup(words) ==
  /\ Len(calls) < MaxCalls
  /\ LET tasks == LookupTasks(words)
         st == RunAll(PromiseAllCalls(tasks), Store)
     IN /\ tokenDB' = st.token
        /\ docsDB' = st.docs
        /\ calls' = Append(calls, [Call("Index.lookup") EXCEPT
                                     !.words = words, !.tasks = tasks,
                                     !.launched = PromiseAllCalls(tasks)])
  /\ UNCHANGED <<impl, vision>>

Index_lookup_then(i) ==
  /\ i \in 1..Len(calls)
  /\ calls[i].op = "Index.lookup" /\ calls[i].pc = "pending"
  /\ calls' = [calls EXCEPT ![i] =
                 IF @.impl = "callback" THEN ThenCallback(@) ELSE ThenResolve(@)]
  /\ UNCHANGED <<impl, vision, tokenDB, docsDB>>

\* Index.prototype.documentIsProcessed(filename, callback): sends GET.
Index_documentIsProcessed(f) ==
  /\ Len(calls) < MaxCalls
  /\ calls' = Append(calls, [Call("documentIsProcessed") EXCEPT !.file = f])
  /\ UNCHANGED <<impl, vision, tokenDB, docsDB>>

\* The reply to GET arrives: function(err, value) { ... }
documentIsProcessed_reply(i, ok) ==
  /\ i \in 1..Len(calls)
  /\ calls[i].op = "documentIsProcessed" /\ calls[i].pc = "pending"
  /\ LET c == calls[i]
         reply == IF ok THEN GET(docsDB, c.file) ELSE Error("StoreError")
     IN calls' = [calls EXCEPT ![i] =
          IF reply.t = "error" THEN Callback(c, reply, Undefined)
          ELSE IF Truthy(reply)
            THEN [Callback(c, Null, Bool(TRUE)) EXCEPT
                    !.log = {<<"already added to index", c.file>>}]
          ELSE IF reply = Str(EmptyStr)
            THEN [Callback(c, Null, Bool(TRUE)) EXCEPT
                    !.log = {<<"contains no text", c.file>>}]
          ELSE Callback(c, Null, Bool(FALSE))]
  /\ UNCHANGED <<impl, vision, tokenDB, docsDB>>

\* Index.prototype.setContainsNoText(filename, callback): sends SET.
Index_setContainsNoText(f) ==
  /\ Len(calls) < MaxCalls
  /\ calls' = Append(calls, [Call("setContainsNoText") EXCEPT !.file = f])
  /\ UNCHANGED <<impl, vision, tokenDB, docsDB>>

\* A variant of the reply in which the SET went through the token client
\* (used to test C16).
setContainsNoText_reply_tokenClient(i, ok) ==
  /\ i \in 1..Len(calls)
  /\ calls[i].op = "setContainsNoText" /\ calls[i].pc = "pending"
  /\ LET c == calls[i]
     IN IF ok
          THEN /\ tokenDB' = SET(tokenDB, c.file, EmptyStr)
               /\ calls' = [calls EXCEPT ![i] =
                              Callback(c, Null, Str(<<"O", "K">>))]
          ELSE /\ tokenDB' = tokenDB
               /\ calls' = [calls EXCEPT ![i] =
                              Callback(c, Error("StoreError"), Undefined)]
  /\ UNCHANGED <<impl, vision, docsDB>>

\* The store performs the SET and replies, or fails it.
setContainsNoText_reply(i, ok) ==
  /\ i \in 1..Len(calls)
  /\ calls[i].op = "setContainsNoText" /\ calls[i].pc = "pending"
  /\ LET c == calls[i]
     IN IF ok
          THEN /\ docsDB' = SET(docsDB, c.file, EmptyStr)
               /\ calls' = [calls EXCEPT ![i] =
                              Callback(c, Null, Str(<<"O", "K">>))]
          ELSE /\ docsDB' = docsDB
               /\ calls' = [calls EXCEPT ![i] =
                              Callback(c, Error("StoreError"), Undefined)]
  /\ UNCHANGED <<impl, vision, tokenDB>>

\* lookup(words): new Index(), then index.lookup(words, function(err, hits)).
lookup(words) ==
  /\ Len(calls) < MaxCalls
  /\ LET tasks == LookupTasks(words)
         st == RunAll(PromiseAllCalls(tasks), Store)
     IN /\ tokenDB' = st.token
        /\ docsDB' = st.docs
        /\ calls' = Append(calls, [Call("lookup") EXCEPT
                                     !.words = words, !.tasks = tasks,
                                     !.launched = PromiseAllCalls(tasks),
                                     !.conn = "open"])
  /\ UNCHANGED <<impl, vision>>

\* function(err, hits) { index.quit(); if (err) return reject(err); ... }
\* Only the callback variant's Index.lookup ever calls it; the async
\* Index.lookup takes no callback and its promise is dropped.
lookup_callback(i) ==
  /\ i \in 1..Len(calls)
  /\ calls[i].op = "lookup" /\ calls[i].pc = "pending"
  /\ calls[i].impl = "callback"
  /\ LET c == calls[i]
         got == ThenCallback(c)
     IN calls' = [calls EXCEPT ![i] =
          [(IF Truthy(got.err) THEN Rejected(c, got.err)
                               ELSE Resolved(c, got.res))
             EXCEPT !.conn = "quit"]]
  /\ UNCHANGED <<impl, vision, tokenDB, docsDB>>

\* getTextFromFiles(index, inputFiles[, callback]): reads every file, then
\* sends the batch to the annotation service.
getTextFromFiles(batch) ==
  /\ Len(calls) < MaxCalls
  /\ calls' = Append(calls,
       IF readFileSyncThrows(batch)
         THEN Rejected([Call("getTextFromFiles") EXCEPT !.files = batch],
                       Error("TypeError"))
         ELSE [Call("getTextFromFiles") EXCEPT
                 !.files = batch, !.pc = "annotating"])
  /\ UNCHANGED <<impl, vision, tokenDB, docsDB>>

\* batchAnnotateImages settles: with the responses (ok) or with an error.
annotate_reply(i, ok) ==
  /\ i \in 1..Len(calls)
  /\ calls[i].pc = "annotating"
  /\ LET c == calls[i]
         direct == c.op = "getTextFromFiles"
         tasks == IF c.impl = "callback" THEN BatchTasksPushed(c.files)
                                       ELSE BatchTasksMapped(c.files)
         value == Arr(PromiseAllValue(tasks))
         reads == c.impl = "callback" \/ DestructuredHasIndex0
         st == IF ok /\ reads THEN RunAll(PromiseAllCalls(tasks), Store)
                              ELSE Store
         logged == [c EXCEPT !.tasks = tasks, !.log = ApiErrors(c.files),
                             !.launched = @ \o PromiseAllCalls(tasks)]
     IN /\ tokenDB' = st.token
        /\ docsDB' = st.docs
        /\ calls' = [calls EXCEPT ![i] =
             IF ~ok
               THEN IF c.impl = "callback" /\ direct
                      THEN Callback(c, Error("ServiceError"), Undefined)
                      ELSE Rejected(c, Error("ServiceError"))
             ELSE IF ~reads
               THEN Rejected(c, Error("TypeError"))
             ELSE IF c.impl = "callback" /\ direct
               THEN Callback(logged, Null, value)
               ELSE Resolved(logged, value)]
  /\ UNCHANGED <<impl, vision>>

\* main(inputDir): new Index(), the directory scan, and everything up to the
\* first await.  The async variant throws before it awaits anything.
main(dir) ==
  /\ Len(calls) < MaxCalls
  /\ LET c == [Call("main") EXCEPT !.dir = dir, !.conn = "open"]
     IN calls' = Append(calls,
          IF impl = "async" /\ ~PromiseHasFilter
            THEN Rejected(c, Error("TypeError"))
            ELSE c)
  /\ UNCHANGED <<impl, vision, tokenDB, docsDB>>

\* main after its awaits: the files to process, then either the batch or
\* index.quit().
main_continue(i) ==
  /\ i \in 1..Len(calls)
  /\ calls[i].op = "main" /\ calls[i].pc = "pending"
  /\ LET c == calls[i]
         tasks == PromiseAllValue(CheckTasks(c.dir))
         st == RunAll(PromiseAllCalls(CheckTasks(c.dir)), Store)
         imageFilesToProcess == FilterTruthy(PromiseAllValue(tasks))
         run == [c EXCEPT !.tasks = tasks, !.files = imageFilesToProcess,
                          !.launched = PromiseAllCalls(CheckTasks(c.dir))]
     IN /\ tokenDB' = st.token
        /\ docsDB' = st.docs
        /\ calls' = [calls EXCEPT ![i] =
             IF Len(imageFilesToProcess) > 0
               THEN IF readFileSyncThrows(imageFilesToProcess)
                      THEN Rejected(run, Error("TypeError"))
                      ELSE [run EXCEPT !.pc = "annotating"]
             ELSE IF c.impl = "callback"
               THEN [Resolved(run, Undefined) EXCEPT !.conn = "quit"]
               ELSE Resolved(run, Undefined)]
  /\ UNCHANGED <<impl, vision>>

Next ==
  \/ \E f \in Files, d \in Texts : Index_add(f, d)
  \/ \E i \in 1..MaxCalls : Index_add_then(i)
  \/ \E w \in WordLists : Index_lookup(w)
  \/ \E i \in 1..MaxCalls : Index_lookup_then(i)
  \/ \E f \in Files : Index_documentIsProcessed(f)
  \/ \E i \in 1..MaxCalls, ok \in BOOLEAN : documentIsProcessed_reply(i, ok)
  \/ \E f \in Files : Index_setContainsNoText(f)
  \/ \E i \in 1..MaxCalls, ok \in BOOLEAN : setContainsNoText_reply(i, ok)
  \/ \E w \in WordLists : lookup(w)
  \/ \E i \in 1..MaxCalls : lookup_callback(i)
  \/ \E b \in Batches : getTextFromFiles(b)
  \/ \E i \in 1..MaxCalls, ok \in BOOLEAN : annotate_reply(i, ok)
  \/ \E dir \in Dirs : main(dir)
  \/ \E i \in 1..MaxCalls : main_continue(i)

Spec == Init /\ [][Next]_vars

\* The Redis server outlives the program: a run may find what earlier
\* indexing left in it.  Two such stores: b.p indexed with its text ("Hi me"),
\* and both files indexed under the token Hi with a.p marked as without text.
SeededTokensB ==
  [k \in Keys |->
     IF k \in Range(tokenize(TextB)) THEN SetEntry({FileB}) ELSE Absent]
SeededTokensAB ==
  [k \in Keys |-> IF k = WordHi THEN SetEntry({FileA, FileB}) ELSE Absent]
SeededDocsB ==
  [k \in Keys |-> IF k = FileB THEN StringEntry(TextB) ELSE Absent]
SeededDocsA ==
  [k \in Keys |-> IF k = FileA THEN StringEntry(EmptyStr) ELSE Absent]
SeededStores ==
  { [token |-> SeededTokensB, docs |-> SeededDocsB],
    [token |-> SeededTokensAB, docs |-> SeededDocsA] }

InitSeeded ==
  /\ impl \in {"callback", "async"}
  /\ vision \in {v \in Visions : ~v[FileA].error}
  /\ \E st \in SeededStores : tokenDB = st.token /\ docsDB = st.docs
  /\ calls = <<>>

SpecSeeded == InitSeeded /\ [][Next]_vars

\* The program against a store that fails every operation it is sent: the
\* replies to GET and SET are errors.
NextStoreDown ==
  \/ \E f \in Files, d \in Texts : Index_add(f, d)
  \/ \E i \in 1..MaxCalls : Index_add_then(i)
  \/ \E w \in WordLists : Index_lookup(w)
  \/ \E i \in 1..MaxCalls : Index_lookup_then(i)
  \/ \E f \in Files : Index_documentIsProcessed(f)
  \/ \E i \in 1..MaxCalls : documentIsProcessed_reply(i, FALSE)
  \/ \E f \in Files : Index_setContainsNoText(f)
  \/ \E i \in 1..MaxCalls : setContainsNoText_reply(i, FALSE)
  \/ \E w \in WordLists : lookup(w)
  \/ \E i \in 1..MaxCalls : lookup_callback(i)
  \/ \E b \in Batches : getTextFromFiles(b)
  \/ \E i \in 1..MaxCalls, ok \in BOOLEAN : annotate_reply(i, ok)
  \/ \E dir \in Dirs : main(dir)
  \/ \E i \in 1..MaxCalls : main_continue(i)

SpecStoreDown == Init /\ [][NextStoreDown]_vars

\* Both scripts used against the same Redis server: calls are made with
\* the callback script first and with the async script from some point on.
\* A call keeps running the code of the script that made it.
RunOtherScript ==
  /\ impl = "callback"
  /\ impl' = "async"
  /\ UNCHANGED <<vision, tokenDB, docsDB, calls>>

InitBoth ==
  /\ impl = "callback"
  /\ vision = [f \in Files |-> IF f = FileA THEN RespNoText ELSE RespText]
  /\ tokenDB = EmptyDB
  /\ docsDB = EmptyDB
  /\ calls = <<>>

NextBoth == Next \/ RunOtherScript

SpecBoth == InitBoth /\ [][NextBoth]_vars

\* ------------------------------------------------------------------ claims
Completed(c) == c.pc = "done"

\* The call told its caller that it worked: a fulfilled promise, or a
\* callback whose err argument is falsy.
Succeeded(c) ==
  /\ c.pc = "done"
  /\ \/ c.how = "resolved"
     \/ c.how = "callback" /\ ~Truthy(c.err)

\* Tokens of a text that Index.add keeps.
KeptTokens(document) == Range(Without(tokenize(document), PUNCTUATION))

\* Calls of add or setContainsNoText made for document id f.
WritersOf(f) ==
  {i \in 1..Len(calls) :
     calls[i].op \in {"add", "setContainsNoText"} /\ calls[i].file = f}

\* The value a call delivered as its result: the callback's second
\* argument or the promise's fulfilment value.
Hits(c) == c.res

\* C1: once add(D, T) has signalled success, a later Index.lookup([t]) for a
\* kept token t of T delivers one result set, and that set contains D.
C1_LookupFindsAdded ==
  \A i \in 1..Len(calls), j \in 1..Len(calls) :
    ( /\ calls[i].op = "add" /\ Succeeded(calls[i])
      /\ calls[j].op = "Index.lookup" /\ Completed(calls[j])
      /\ i \in calls[j].seen
      /\ Len(calls[j].words) = 1
      /\ calls[j].words[1] \in KeptTokens(calls[i].doc) )
    => ( /\ Succeeded(calls[j])
         /\ Hits(calls[j]).t = "array"
         /\ Len(Hits(calls[j]).arr) = 1
         /\ Hits(calls[j]).arr[1].kind = "set"
         /\ calls[i].file \in Hits(calls[j]).arr[1].members )

\* The three answers documentIsProcessed can give.
NotProcessed(c) == c.err = Null /\ c.res = Bool(FALSE)
ProcessedNoText(c) ==
  c.err = Null /\ c.res = Bool(TRUE)
    /\ c.log = {<<"contains no text", c.file>>}
ProcessedWithText(c) ==
  c.err = Null /\ c.res = Bool(TRUE)
    /\ c.log = {<<"already added to index", c.file>>}

\* A processed check that got an answer from the store.
Answered(c) ==
  c.op = "documentIsProcessed" /\ Completed(c) /\ c.err.t # "error"

\* C2 (a): no add or setContainsNoText call on D so far: not processed.
C2_NotProcessedBefore ==
  \A j \in 1..Len(calls) :
    (Answered(calls[j]) /\ WritersOf(calls[j].file) = {})
      => NotProcessed(calls[j])

\* C2 (b): after setContainsNoText(D) completed (and no add on D):
\* processed without text.
C2_NoTextAfterMark ==
  \A i \in 1..Len(calls), j \in 1..Len(calls) :
    ( /\ Answered(calls[j])
      /\ calls[i].op = "setContainsNoText" /\ Succeeded(calls[i])
      /\ calls[i].file = calls[j].file
      /\ i \in calls[j].seen
      /\ \A k \in WritersOf(calls[j].file) : calls[k].op = "setContainsNoText" )
    => ProcessedNoText(calls[j])

\* C2 (c): after add(D, T) with non-empty T completed (and no
\* setContainsNoText on D): processed with text.
C2_WithTextAfterAdd ==
  \A i \in 1..Len(calls), j \in 1..Len(calls) :
    ( /\ Answered(calls[j])
      /\ calls[i].op = "add" /\ Completed(calls[i])
      /\ calls[i].doc # EmptyStr
      /\ calls[i].file = calls[j].file
      /\ i \in calls[j].seen
      /\ \A k \in WritersOf(calls[j].file) : calls[k].op = "add" )
    => ProcessedWithText(calls[j])

\* C2: documentIsProcessed(D) reports not-processed before any add or
\* setContainsNoText on D, processed-without-text after setContainsNoText(D)
\* completed, and processed-with-text after add(D, T), T non-empty, completed.
C2_ProcessedStates ==
  C2_NotProcessedBefore /\ C2_NoTextAfterMark /\ C2_WithTextAfterAdd

\* C3: once add(D, T) has completed (the only write to D), the documents
\* database holds T under D, and no key of the token database holds a
\* string.
C3_TextInDocsNamespace ==
  /\ \A i \in 1..Len(calls) :
       ( /\ calls[i].op = "add" /\ Completed(calls[i])
         /\ WritersOf(calls[i].file) = {i} )
       => docsDB[calls[i].file] = StringEntry(calls[i].doc)
  /\ \A k \in Keys : tokenDB[k].type # "string"

\* The document id an element of imageFilesToProcess stands for: the name
\* itself, or the name captured by the function.
NameOf(it) == IF it.kind = "string" THEN it.str ELSE it.key

\* C4: a file whose processed marker was written before an analyze run was
\* started is not among the files that run forwards for analysis.
C4_ProcessedFilesSkipped ==
  \A i \in 1..Len(calls), j \in 1..Len(calls) :
    ( /\ calls[j].op = "main" /\ Completed(calls[j])
      /\ calls[i].op = "setContainsNoText" /\ Succeeded(calls[i])
      /\ i \in calls[j].seen )
    => \A k \in 1..Len(calls[j].files) :
         NameOf(calls[j].files[k]) # calls[i].file

\* C5: looking up words no add ever indexed yields an empty set per word
\* and no error: Index.lookup succeeds with empty sets, and the top-level
\* lookup promise is fulfilled with them.
C5_UnindexedIsEmptyNotError ==
  \A j \in 1..Len(calls) :
    ( /\ calls[j].op \in {"Index.lookup", "lookup"} /\ Completed(calls[j])
      /\ \A k \in 1..Len(calls[j].words) :
           tokenDB[toLowerCase(calls[j].words[k])] = Absent )
    => ( /\ Succeeded(calls[j])
         /\ Hits(calls[j]).t = "array"
         /\ \A k \in 1..Len(Hits(calls[j]).arr) :
              Hits(calls[j]).arr[k] = SetItem({}) )

\* C6: a completed lookup delivers exactly one result per word, in order:
\* the i-th is the posting set of the lowercased i-th word.
C6_OneResultPerWord ==
  \A j \in 1..Len(calls) :
    (calls[j].op \in {"Index.lookup", "lookup"} /\ Completed(calls[j]))
    => ( /\ Hits(calls[j]).t = "array"
         /\ Len(Hits(calls[j]).arr) = Len(calls[j].words)
         /\ \A k \in 1..Len(calls[j].words) :
              Hits(calls[j]).arr[k] =
                SetItem(SMEMBERS(tokenDB, toLowerCase(calls[j].words[k]))) )

\* C7: add reports success only if every write it stands for succeeded: the
\* document id is in the posting set of every kept token and the text is
\* stored under the document id.
C7_SuccessMeansAllWritten ==
  \A i \in 1..Len(calls) :
    (calls[i].op = "add" /\ Succeeded(calls[i]))
    => ( /\ \A t \in KeptTokens(calls[i].doc) :
              calls[i].file \in SMEMBERS(tokenDB, t)
         /\ WritersOf(calls[i].file) = {i} =>
              \/ tokenDB[calls[i].file] = StringEntry(calls[i].doc)
              \/ docsDB[calls[i].file] = StringEntry(calls[i].doc) )

\* The batch was answered by the annotation service (the call as a whole
\* did not fail).
BatchAnswered(c) == Completed(c) /\ c.err # Error("ServiceError")

BatchFiles(c) == {c.files[k].str : k \in 1..Len(c.files)}

\* No posting set holds f.
NoPostings(f) == \A k \in Keys : f \notin SMEMBERS(tokenDB, k)

\* C8: in an answered batch of getTextFromFiles, a file with an error gets
\* no postings and no marker, the batch still completes without failure,
\* and every other file is handled: marked when it has no text, indexed
\* under its tokens when it has.
C8_ErrorFileSkippedOthersHandled ==
  \A j \in 1..Len(calls) :
    ( /\ calls[j].op = "getTextFromFiles" /\ BatchAnswered(calls[j])
      /\ \A f \in BatchFiles(calls[j]) : WritersOf(f) = {} )
    => ( /\ Succeeded(calls[j])
         /\ \A f \in BatchFiles(calls[j]) :
              IF vision[f].error
                THEN docsDB[f] = Absent /\ NoPostings(f)
              ELSE IF vision[f].textAnnotations = <<>>
                THEN docsDB[f] = StringEntry(EmptyStr)
              ELSE \A t \in KeptTokens(extractDescription(
                                         vision[f].textAnnotations)) :
                     f \in SMEMBERS(tokenDB, t) )

\* The plain files of a directory listing, as document ids.
PlainFiles(dir) ==
  {join(InputDir, dir[k].name) : k \in {n \in 1..Len(dir) : ~dir[n].isDirectory}}

\* C9: after analyze completes on a directory with one unprocessed image for
\* which the service answers no text, the documents database holds the
\* empty string under the file's name and no posting set holds the file.
C9_NoTextFileMarked ==
  \A j \in 1..Len(calls) :
    ( /\ calls[j].op = "main" /\ BatchAnswered(calls[j])
      /\ \E f \in Files :
           /\ PlainFiles(calls[j].dir) = {f}
           /\ WritersOf(f) = {}
           /\ vision[f] = RespNoText )
    => \A f \in PlainFiles(calls[j].dir) :
         docsDB[f] = StringEntry(EmptyStr) /\ NoPostings(f)

\* C10: a run that created an Index (main, top-level lookup) has called
\* Index.quit by the time it completes, on every path.
C10_QuitWhenDone ==
  \A j \in 1..Len(calls) :
    (calls[j].op \in {"main", "lookup"} /\ Completed(calls[j]))
    => calls[j].conn = "quit"

\* A step that makes a new call of op.
Calling(op) ==
  /\ Len(calls') = Len(calls) + 1
  /\ calls'[Len(calls')].op = op

\* The step calls add with the arguments of the call made just before it.
AddAgain ==
  /\ Calling("add")
  /\ Len(calls) >= 1
  /\ calls[Len(calls)].op = "add"
  /\ calls[Len(calls)].file = calls'[Len(calls')].file
  /\ calls[Len(calls)].doc = calls'[Len(calls')].doc

\* C11: add is idempotent: calling add(D, T) a second time leaves every key
\* of the token database as the first call left it.
C11_AddTwiceSameAsOnce == [][AddAgain => tokenDB' = tokenDB]_vars

\* add(D, T) was called twice in a row on a store that holds posting sets,
\* and both calls have completed.
C11_Witness ==
  /\ \E k \in Keys : SMEMBERS(tokenDB, k) # {}
  /\ \E i \in 1..(Len(calls) - 1) :
       /\ calls[i].op = "add" /\ calls[i + 1].op = "add"
       /\ calls[i].file = calls[i + 1].file
       /\ calls[i].doc = calls[i + 1].doc
       /\ Completed(calls[i]) /\ Completed(calls[i + 1])

\* The call told its caller that it failed, and with what.
FailedWith(c, e) ==
  /\ c.pc = "done"
  /\ c.how \in {"callback", "rejected"}
  /\ c.err = e

\* C12 (a): a failed GET is passed to documentIsProcessed's callback.
C12_GetErrorPassed ==
  \A j \in 1..Len(calls) :
    (calls[j].op = "documentIsProcessed" /\ Completed(calls[j]))
      => FailedWith(calls[j], Error("StoreError"))

\* C12 (b): with failing SMEMBERS reads, a completed lookup of at least one
\* word reports the store error, and the top-level promise rejects with it.
C12_LookupErrorReported ==
  \A j \in 1..Len(calls) :
    ( /\ calls[j].op \in {"Index.lookup", "lookup"} /\ Completed(calls[j])
      /\ Len(calls[j].words) > 0 )
      => FailedWith(calls[j], Error("StoreError"))

\* C12 (c): with failing processed checks, an analyze run over a directory
\* with at least one file fails with the store error, and forwards no file.
C12_MainFailsWithError ==
  \A j \in 1..Len(calls) :
    ( /\ calls[j].op = "main" /\ Completed(calls[j])
      /\ PlainFiles(calls[j].dir) # {} )
      => ( /\ FailedWith(calls[j], Error("StoreError"))
           /\ calls[j].files = <<>> )

\* C12: when the store fails its operations, the error is the failure of
\* the enclosing call: of Index.lookup and the top-level lookup, of
\* documentIsProcessed, and of the analyze run.
C12_StoreErrorPropagated ==
  C12_GetErrorPassed /\ C12_LookupErrorReported /\ C12_MainFailsWithError

\* Every function of tasks has been called by the time the call completed.
AllLaunched(c, tasks) ==
  \A k \in 1..Len(tasks) :
    tasks[k].kind = "function" => tasks[k] \in Range(c.launched)

\* C13: all-complete barrier.  add completes only after every token write
\* and the text write were launched and completed; main gets past its
\* processed-check step only after the check of every candidate file; the
\* batch step of getTextFromFiles finishes only after the store writes of
\* every file of the batch.  (A launched task has completed: the model
\* applies its store operation in the step that launches it.)
C13_AllCompleteBarrier ==
  \A j \in 1..Len(calls) :
    Completed(calls[j]) =>
      /\ calls[j].op = "add" =>
           AllLaunched(calls[j], AddTasks(calls[j].file, calls[j].doc))
      /\ (calls[j].op = "main" /\ calls[j].tasks # <<>>) =>
           AllLaunched(calls[j], CheckTasks(calls[j].dir))
      /\ (calls[j].op = "getTextFromFiles" /\ Succeeded(calls[j])) =>
           AllLaunched(calls[j], BatchTasksPushed(calls[j].files))

\* What a call reported, whatever the idiom: success or failure, and the
\* value or error that came with it.
Report(c) ==
  [ok |-> Succeeded(c), value |-> IF Succeeded(c) THEN c.res ELSE c.err]

\* The same operation with the same arguments.
SameCall(c, d) ==
  /\ c.op = d.op /\ c.file = d.file /\ c.doc = d.doc
  /\ c.words = d.words /\ c.dir = d.dir
  /\ (c.op = "getTextFromFiles" => c.files = d.files)

\* C14: the two scripts implement the same logic: the same call, made on
\* the same store contents with the same service answers, reports the same
\* outcome from either script and leaves the connections in the same state.
\* (While both databases are empty, every call so far saw them empty.)
C14_SameOutcome ==
  (tokenDB = EmptyDB /\ docsDB = EmptyDB) =>
    \A i \in 1..Len(calls), j \in 1..Len(calls) :
      ( /\ calls[i].impl = "callback" /\ calls[j].impl = "async"
        /\ SameCall(calls[i], calls[j])
        /\ Completed(calls[i]) /\ Completed(calls[j]) )
      => ( /\ Report(calls[i]) = Report(calls[j])
           /\ calls[i].conn = calls[j].conn )

\* Every member of every posting set is still a member after the step.
PostingsKept ==
  \A k \in Keys : SMEMBERS(tokenDB, k) \subseteq SMEMBERS(tokenDB', k)

\* After the step no filtered token ('.', ',', ':' or '') is the key of a
\* posting set.
NoPunctuationPostings ==
  \A p \in PUNCTUATION : tokenDB'[p].type # "set"

\* C15: posting sets grow monotonically: a document that is a member of a
\* token's posting set stays a member through every add, setContainsNoText,
\* lookup, documentIsProcessed and analyze step, and no step creates a
\* posting set under '.', ',', ':' or the empty string.
C15_PostingSetsGrow == [][PostingsKept /\ NoPunctuationPostings]_vars

\* On a store that holds posting sets, add of a text with punctuation in it
\* and an analyze run have completed, and so has a lookup or a store query.
C15_Witness ==
  /\ FileB \in SMEMBERS(tokenDB, WordHi)
  /\ \E i \in 1..Len(calls) :
       /\ calls[i].op = "add" /\ calls[i].file = FileA
       /\ calls[i].doc = TextA /\ Completed(calls[i])
  /\ \E i \in 1..Len(calls) : calls[i].op = "main" /\ Completed(calls[i])
  /\ \E i \in 1..Len(calls) :
       /\ calls[i].op \in {"Index.lookup", "setContainsNoText",
                           "documentIsProcessed"}
       /\ Completed(calls[i])

\* The step is a step of call i: the call is made or it moves on.
StepOf(i) ==
  /\ i \in 1..Len(calls')
  /\ (i > Len(calls) \/ calls'[i] # calls[i])

\* The step changes no key of either database.
NoKeyChanged == tokenDB' = tokenDB /\ docsDB' = docsDB

\* The step changes at most the key of the documents database.
OnlyDocsKeyChanged(key) ==
  /\ tokenDB' = tokenDB
  /\ \A k \in Keys \ {key} : docsDB'[k] = docsDB[k]

\* C16: read operations and the no-text marker leave the index untouched:
\* a step of Index.lookup or documentIsProcessed changes no key of either
\* database, and a step of setContainsNoText(D) changes only the key D of
\* the documents database and no posting set.
C16_ReadsAndMarkerFrame ==
  [][\A i \in 1..MaxCalls :
       StepOf(i) =>
         /\ calls'[i].op \in {"Index.lookup", "documentIsProcessed"}
               => NoKeyChanged
         /\ calls'[i].op = "setContainsNoText"
               => OnlyDocsKeyChanged(calls'[i].file)]_vars

\* On a store that holds posting sets, setContainsNoText(b.p) has written
\* its marker over the stored text, and an Index.lookup and a
\* documentIsProcessed call have completed.
C16_Witness ==
  /\ \E k \in Keys : SMEMBERS(tokenDB, k) # {}
  /\ docsDB[FileB] = StringEntry(EmptyStr)
  /\ \E i \in 1..Len(calls) :
       /\ calls[i].op = "setContainsNoText" /\ calls[i].file = FileB
       /\ Succeeded(calls[i])
  /\ \E i \in 1..Len(calls) :
       calls[i].op = "Index.lookup" /\ Completed(calls[i])
  /\ \E i \in 1..Len(calls) :
       calls[i].op = "documentIsProcessed" /\ Completed(calls[i])

====
